---- MODULE Spec2Model ----
(***************************************************************************)
(* create_issues.py: ISSUES.md is parsed into issue records, the records   *)
(* are saved to issues.json, the GitHub CLI is checked, the labels are     *)
(* created and then one issue per record is created.                       *)
(*                                                                         *)
(* Text is a sequence of tokens.  A token is a piece of text that the      *)
(* regular expressions of the script treat as a unit: one of the markers   *)
(* the script searches for, or a single character.  No marker can be       *)
(* assembled from other tokens, so a search over the tokens finds exactly  *)
(* what the search over the characters finds.                              *)
(***************************************************************************)
EXTENDS Integers, Sequences, FiniteSets, TLC

VARIABLES content, pc, issues, snapshot, all_labels, label_idx, label_result,
          i, created, failed, temp_files, events

vars == <<content, pc, issues, snapshot, all_labels, label_idx, label_result,
          i, created, failed, temp_files, events>>

-----------------------------------------------------------------------------
(* Bounds *)

\* Longest document, in issue blocks, of the catalogue documents.
MaxBlocks == 2

\* Longest document, in tokens, of the documents enumerated token by token.
MaxDocLen == 4

-----------------------------------------------------------------------------
(* Tokens *)

IH == "Issue #1:"
IM == "Issue #"
LM == "**Labels:**"
DM == "**Description:**"
AM == "**Acceptance Criteria:**"
FM == "**Files to Modify:**"
SEP == "---"
SP == " "
NL == "\n"
COMMA == ","
\* The backquote character.
BT == "BACKQUOTE"
HA == "## Acceptance Criteria"
HF == "## Files to Modify"

\* The code points of a token, by which Python orders strings.
Codes(t) ==
  CASE t = IH -> <<73, 115, 115, 117, 101, 32, 35, 49, 58>>
    [] t = IM -> <<73, 115, 115, 117, 101, 32, 35>>
    [] t = LM -> <<42, 42, 76, 97, 98, 101, 108, 115, 58, 42, 42>>
    [] t = DM -> <<42, 42, 68, 101, 115, 99, 114, 105, 112, 116, 105, 111, 110, 58, 42, 42>>
    [] t = AM -> <<42, 42, 65, 99, 99, 101, 112, 116, 97, 110, 99, 101, 32, 67, 114,
                   105, 116, 101, 114, 105, 97, 58, 42, 42>>
    [] t = FM -> <<42, 42, 70, 105, 108, 101, 115, 32, 116, 111, 32, 77, 111, 100, 105,
                   102, 121, 58, 42, 42>>
    [] t = SP -> <<32>>
    [] t = NL -> <<10>>
    [] t = COMMA -> <<44>>
    [] t = BT -> <<96>>
    [] t = "a" -> <<97>>
    [] t = "b" -> <<98>>
    [] t = "c" -> <<99>>

Min(S) == CHOOSE x \in S : \A y \in S : x <= y
Max(S) == CHOOSE x \in S : \A y \in S : x >= y

-----------------------------------------------------------------------------
(* str and re *)

\* What \s matches and str.strip() removes.
IsSpace(t) == t \in {SP, NL}

\* str.strip()
strip(s) ==
  LET keep == {k \in 1..Len(s) : ~IsSpace(s[k])}
  IN  IF keep = {} THEN <<>> ELSE SubSeq(s, Min(keep), Max(keep))

\* str.split(sep)
RECURSIVE split(_, _)
split(s, sep) ==
  LET at == {k \in 1..Len(s) : s[k] = sep}
  IN  IF at = {} THEN <<s>>
      ELSE <<SubSeq(s, 1, Min(at) - 1)>> \o split(SubSeq(s, Min(at) + 1, Len(s)), sep)

\* str.replace(old, empty string), old a single token
remove(s, old) == SelectSeq(s, LAMBDA t : t # old)

\* The test of a block for the text Issue # (the title marker begins with it).
contains_issue_marker(s) == \E k \in 1..Len(s) : s[k] \in {IH, IM}

\* The position after a greedy \s* that starts at p.
skip_spaces(s, p) ==
  LET stop == {k \in p..Len(s) : ~IsSpace(s[k])}
  IN  IF stop = {} THEN Len(s) + 1 ELSE Min(stop)

no_match == [matched |-> FALSE, group1 |-> <<>>]

\* marker\s*(.+) matched at the marker at position m: \s* gives back spaces
\* until . (anything but a newline) has one character to take, and .+ is greedy.
line_match_at(s, m) ==
  LET hi == skip_spaces(s, m + 1)
      starts == {p \in (m + 1)..hi : p <= Len(s) /\ s[p] # NL}
  IN  IF starts = {} THEN no_match
      ELSE LET p == Max(starts)
               nls == {k \in p..Len(s) : s[k] = NL}
               e == IF nls = {} THEN Len(s) ELSE Min(nls) - 1
           IN  [matched |-> TRUE, group1 |-> SubSeq(s, p, e)]

\* re.search(marker\s*(.+), s)
search_line(marker, s) ==
  LET hits == {m \in 1..Len(s) : s[m] = marker /\ line_match_at(s, m).matched}
  IN  IF hits = {} THEN no_match ELSE line_match_at(s, Min(hits))

\* marker\s*(.+?)(?=T1|T2|\Z) with re.DOTALL matched at the marker at position m:
\* the lazy group takes at least one character and ends before the first
\* terminator after it (terms: the markers of the lookahead; at_end: \Z allowed).
section_match_at(s, m, terms, at_end) ==
  LET hi == skip_spaces(s, m + 1)
      stops(p) == {j \in (p + 1)..Len(s) : s[j] \in terms}
                    \cup (IF at_end THEN {Len(s) + 1} ELSE {})
      starts == {p \in (m + 1)..hi : p <= Len(s) /\ stops(p) # {}}
  IN  IF starts = {} THEN no_match
      ELSE LET p == Max(starts)
           IN  [matched |-> TRUE, group1 |-> SubSeq(s, p, Min(stops(p)) - 1)]

\* re.search(marker\s*(.+?)(?=...), s, re.DOTALL)
search_section(marker, s, terms, at_end) ==
  LET hits == {m \in 1..Len(s) : s[m] = marker
                                   /\ section_match_at(s, m, terms, at_end).matched}
  IN  IF hits = {} THEN no_match ELSE section_match_at(s, Min(hits), terms, at_end)

-----------------------------------------------------------------------------
(* parse_issues_file *)

\* each piece of labels_str.split(comma), stripped, then its backquotes removed
RECURSIVE clean_labels(_)
clean_labels(pieces) ==
  IF pieces = <<>> THEN <<>>
  ELSE <<remove(strip(Head(pieces)), BT)>> \o clean_labels(Tail(pieces))

title_match(block) == search_line(IH, block)
labels_match(block) == search_line(LM, block)
desc_match(block) == search_section(DM, block, {AM, FM}, FALSE)
criteria_match(block) == search_section(AM, block, {FM}, TRUE)
\* A block holds no separator, so of the lookahead only the end of the block can match.
files_match(block) == search_section(FM, block, {}, TRUE)

\* Appending to the body of an issue that has no body raises KeyError.
raises_key_error(block) ==
  /\ ~desc_match(block).matched
  /\ criteria_match(block).matched \/ files_match(block).matched

\* The dict built for one block that holds Issue # (when nothing is raised).
block_issue(block) ==
  LET keys == (IF title_match(block).matched THEN {"title"} ELSE {})
                \cup (IF labels_match(block).matched THEN {"labels"} ELSE {})
                \cup (IF desc_match(block).matched THEN {"body"} ELSE {})
      body0 == strip(desc_match(block).group1)
      body1 == IF criteria_match(block).matched
               THEN body0 \o <<NL, NL, HA, NL>> \o strip(criteria_match(block).group1)
               ELSE body0
      body2 == IF files_match(block).matched
               THEN body1 \o <<NL, NL, HF, NL>> \o strip(files_match(block).group1)
               ELSE body1
  IN  [k \in keys |->
         CASE k = "title" -> strip(title_match(block).group1)
           [] k = "labels" ->
                clean_labels(split(strip(labels_match(block).group1), COMMA))
           [] k = "body" -> body2]

has(issue, key) == key \in DOMAIN issue

\* issue.get(title) is truthy: a title that is there and not empty
title_truthy(issue) == has(issue, "title") /\ issue["title"] # <<>>

\* The loop over the blocks: the issues appended so far, or the KeyError that
\* ends the function.
RECURSIVE parse_blocks(_, _)
parse_blocks(blocks, acc) ==
  IF blocks = <<>> THEN [raised |-> FALSE, issues |-> acc]
  ELSE LET block == Head(blocks)
       IN  IF ~contains_issue_marker(block) THEN parse_blocks(Tail(blocks), acc)
           ELSE IF raises_key_error(block) THEN [raised |-> TRUE, issues |-> <<>>]
           ELSE IF title_truthy(block_issue(block))
                THEN parse_blocks(Tail(blocks), Append(acc, block_issue(block)))
                ELSE parse_blocks(Tail(blocks), acc)

parse_issues_file(text) == parse_blocks(split(text, SEP), <<>>)

-----------------------------------------------------------------------------
(* get_all_labels *)

RECURSIVE flat(_)
\* The characters of a text, as code points.
flat(s) == IF s = <<>> THEN <<>> ELSE Codes(Head(s)) \o flat(Tail(s))

\* a < b for two strings given by their code points
codes_less(a, b) ==
  \/ Len(a) < Len(b) /\ SubSeq(b, 1, Len(a)) = a
  \/ \E k \in 1..Min({Len(a), Len(b)}) :
       /\ SubSeq(a, 1, k - 1) = SubSeq(b, 1, k - 1)
       /\ a[k] < b[k]

str_less(a, b) == codes_less(flat(a), flat(b))

\* sorted(S), S a set of strings
RECURSIVE sorted(_)
sorted(S) ==
  IF S = {} THEN <<>>
  ELSE LET least == CHOOSE x \in S : \A y \in S \ {x} : str_less(x, y)
       IN  <<least>> \o sorted(S \ {least})

\* issue.get(labels, [])
labels_of(issue) == IF has(issue, "labels") THEN issue["labels"] ELSE <<>>

\* The set the two loops of get_all_labels fill.
label_set(records) ==
  UNION {{labels_of(records[k])[n] : n \in 1..Len(labels_of(records[k]))} :
           k \in 1..Len(records)}

RECURSIVE label_list(_)
\* Mutant: the labels are collected in a list and not sorted.
label_list(records) ==
  IF records = <<>> THEN <<>> ELSE labels_of(Head(records)) \o label_list(Tail(records))

get_all_labels(records) == sorted(label_set(records))

-----------------------------------------------------------------------------
(* Documents *)

\* A block with every section: title a, labels b and a, body a / b / c.
BlkFull ==
  <<NL, IH, SP, "a", NL, LM, SP, "b", COMMA, SP, "a", NL, DM, SP, "a", NL, NL,
    AM, NL, "b", NL, NL, FM, NL, "c", NL, NL>>

\* Labels in backquotes, a description and files, no acceptance criteria.
BlkTwo ==
  <<NL, IH, SP, "b", NL, LM, SP, BT, "c", BT, COMMA, "b", NL, DM, "b", NL,
    FM, "a", NL>>

\* No labels line.
BlkNoLabels == <<NL, IH, "c", NL, DM, "a", NL, AM, "b", NL>>

\* A title and nothing else.
BlkTitleOnly == <<NL, IH, SP, "c", SP, NL>>

\* Text before the first issue.
BlkPreamble == <<"a", SP, "b", NL>>

\* The text Issue # without a number and a colon.
BlkMarkerOnly == <<NL, IM, "a", NL, LM, "a", NL>>

\* A title and acceptance criteria, no description.
BlkNoDesc == <<NL, IH, SP, "a", NL, AM, NL, "b", NL>>

Blocks ==
  {BlkFull, BlkTwo, BlkNoLabels, BlkTitleOnly, BlkPreamble, BlkMarkerOnly, BlkNoDesc}

RECURSIVE join(_)
\* The blocks with the separator between them.
join(blocks) ==
  IF Len(blocks) = 1 THEN Head(blocks)
  ELSE Head(blocks) \o <<SEP>> \o join(Tail(blocks))

CatalogueDocs ==
  {<<>>} \cup {join(bs) : bs \in UNION {[1..n -> Blocks] : n \in 1..MaxBlocks}}

Alphabet == {IH, IM, LM, DM, AM, FM, SEP, SP, NL, COMMA, BT, "a", "b"}

TokenDocs == UNION {[1..n -> Alphabet] : n \in 0..MaxDocLen}

-----------------------------------------------------------------------------
(* main *)

no_file == [exists |-> FALSE, data |-> <<>>]

event(op, arg, out) == [op |-> op, arg |-> arg, out |-> out]

InitWith(docs) ==
  /\ content \in docs
  /\ pc = "parse"
  /\ issues = <<>>
  /\ snapshot = no_file
  /\ all_labels = <<>>
  /\ label_idx = 0
  /\ label_result = "none"
  /\ i = 0
  /\ created = 0
  /\ failed = 0
  /\ temp_files = {}
  /\ events = <<>>

Init == InitWith(CatalogueDocs)

\* Mutant: issues.json is not written.
after_parse_no_snapshot(raised) == IF raised THEN "crashed" ELSE "version"

\* Where main goes after parse_issues_file: a KeyError is caught nowhere and
\* ends the run; otherwise issues.json is written next.
after_parse(raised) == IF raised THEN "crashed" ELSE "snapshot"

\* issues = parse_issues_file()
Parse ==
  /\ pc = "parse"
  /\ LET r == parse_issues_file(content)
     IN  /\ issues' = r.issues
         /\ pc' = after_parse(r.raised)
         /\ events' = Append(events,
                             event("parse", 0, IF r.raised THEN "KeyError" ELSE "ok"))
  /\ UNCHANGED <<content, snapshot, all_labels, label_idx, label_result, i,
                 created, failed, temp_files>>

\* json.dump(issues, f) into issues.json
SaveSnapshot ==
  /\ pc = "snapshot"
  /\ snapshot' = [exists |-> TRUE, data |-> issues]
  /\ events' = Append(events, event("snapshot", 0, "ok"))
  /\ pc' = "version"
  /\ UNCHANGED <<content, issues, all_labels, label_idx, label_result, i,
                 created, failed, temp_files>>

\* Where main goes after gh --version: CalledProcessError and FileNotFoundError
\* are caught and main returns; any other exception leaves main.
after_version(out) ==
  CASE out = "ok" -> "auth"
    [] out = "unavailable" -> "stopped"
    [] out = "raise" -> "crashed"

VersionCheck ==
  /\ pc = "version"
  /\ \E out \in {"ok", "unavailable", "raise"} :
       /\ events' = Append(events, event("version_check", 0, out))
       /\ pc' = after_version(out)
  /\ UNCHANGED <<content, issues, snapshot, all_labels, label_idx, label_result,
                 i, created, failed, temp_files>>

\* Mutant: the return after the failed authentication check is missing.
after_auth_no_return(out) ==
  CASE out = "authenticated" -> "labels"
    [] out = "unauthenticated" -> "labels"
    [] out = "raise" -> "crashed"

\* Where main goes after gh auth status: it returns on a nonzero return code;
\* the call is in no try block.
after_auth(out) ==
  CASE out = "authenticated" -> "labels"
    [] out = "unauthenticated" -> "stopped"
    [] out = "raise" -> "crashed"

AuthStatus ==
  /\ pc = "auth"
  /\ \E out \in {"authenticated", "unauthenticated", "raise"} :
       /\ events' = Append(events, event("auth_status", 0, out))
       /\ pc' = after_auth(out)
  /\ UNCHANGED <<content, issues, snapshot, all_labels, label_idx, label_result,
                 i, created, failed, temp_files>>

\* all_labels = get_all_labels(issues)
GetAllLabels ==
  /\ pc = "labels"
  /\ all_labels' = get_all_labels(issues)
  /\ label_idx' = 1
  /\ pc' = "create_labels"
  /\ UNCHANGED <<content, issues, snapshot, label_result, i, created, failed,
                 temp_files, events>>

Outcomes == {"ok", "error", "raise"}

\* What create_labels prints for a label.
label_print(out) ==
  CASE out = "ok" -> "created"
    [] out = "error" -> "warning"
    [] out = "raise" -> "error"

\* Mutant: the call is in no try block and its exception leaves create_labels.
after_label_uncaught(out) == IF out = "raise" THEN "crashed" ELSE "create_labels"

\* Where create_labels goes after a label: the exception is caught in the loop.
after_label(out) == "create_labels"

\* One turn of the loop of create_labels.
CreateLabel ==
  /\ pc = "create_labels"
  /\ label_idx <= Len(all_labels)
  /\ \E out \in Outcomes :
       /\ events' = Append(events, event("label_upsert", all_labels[label_idx], out))
       /\ label_result' = label_print(out)
       /\ pc' = after_label(out)
  /\ label_idx' = label_idx + 1
  /\ UNCHANGED <<content, issues, snapshot, all_labels, i, created, failed,
                 temp_files>>

\* create_labels returns; create_issues_with_cli starts.
StartIssues ==
  /\ pc = "create_labels"
  /\ label_idx > Len(all_labels)
  /\ created' = 0
  /\ failed' = 0
  /\ i' = 1
  /\ pc' = "issue_temp"
  /\ UNCHANGED <<content, issues, snapshot, all_labels, label_idx, label_result,
                 temp_files, events>>

\* issue.get(body, empty string)
body_of(issue) == IF has(issue, "body") THEN issue["body"] ELSE <<>>

\* The temporary file of the i-th turn, with the body written to it.
body_file(n) == [name |-> n, text |-> body_of(issues[n])]

\* with tempfile.NamedTemporaryFile(delete=False) as f: f.write(body)
WriteBody ==
  /\ pc = "issue_temp"
  /\ i <= Len(issues)
  /\ temp_files' = temp_files \cup {body_file(i)}
  /\ pc' = "issue_call"
  /\ UNCHANGED <<content, issues, snapshot, all_labels, label_idx, label_result,
                 i, created, failed, events>>

created_after(out, n) == IF out = "ok" THEN n + 1 ELSE n

\* Mutant: the except branch does not count.
failed_after_uncounted(out, n) == IF out = "error" THEN n + 1 ELSE n

\* A nonzero return code and an exception both count as failed.
failed_after(out, n) == IF out \in {"error", "raise"} THEN n + 1 ELSE n

\* The try block: gh issue create, and the count of its outcome.
IssueCreate ==
  /\ pc = "issue_call"
  /\ \E out \in Outcomes :
       /\ events' = Append(events, event("issue_create", i, out))
       /\ created' = created_after(out, created)
       /\ failed' = failed_after(out, failed)
  /\ pc' = "issue_unlink"
  /\ UNCHANGED <<content, issues, snapshot, all_labels, label_idx, label_result,
                 i, temp_files>>

last_out == events[Len(events)].out

\* Mutant: the unlink is at the end of the try block and not in a finally.
files_after_leak(out, files, n) ==
  IF out = "raise" THEN files ELSE files \ {body_file(n)}

\* finally: os.unlink(body_file), whatever the outcome.
files_after(out, files, n) == files \ {body_file(n)}

\* Mutant: the loop breaks at the first failure.
next_issue_break(out, n) == IF out = "ok" THEN n + 1 ELSE Len(issues) + 1

\* The turn the loop takes next: the next issue, whatever the outcome.
next_issue(out, n) == n + 1

Unlink ==
  /\ pc = "issue_unlink"
  /\ temp_files' = files_after(last_out, temp_files, i)
  /\ i' = next_issue(last_out, i)
  /\ pc' = "issue_temp"
  /\ UNCHANGED <<content, issues, snapshot, all_labels, label_idx, label_result,
                 created, failed, events>>

\* create_issues_with_cli returns; main prints Done! Created: .., Failed: ..
Summary ==
  /\ pc = "issue_temp"
  /\ i > Len(issues)
  /\ events' = Append(events, event("summary", <<created, failed>>, "ok"))
  /\ pc' = "done"
  /\ UNCHANGED <<content, issues, snapshot, all_labels, label_idx, label_result,
                 i, created, failed, temp_files>>

Next ==
  \/ Parse
  \/ SaveSnapshot
  \/ VersionCheck
  \/ AuthStatus
  \/ GetAllLabels
  \/ CreateLabel
  \/ StartIssues
  \/ WriteBody
  \/ IssueCreate
  \/ Unlink
  \/ Summary

Spec == Init /\ [][Next]_vars

\* The steps of main after parse_issues_file has returned.
AfterParse ==
  \/ SaveSnapshot
  \/ VersionCheck
  \/ AuthStatus
  \/ GetAllLabels
  \/ CreateLabel
  \/ StartIssues
  \/ WriteBody
  \/ IssueCreate
  \/ Unlink
  \/ Summary

\* The script runs in one thread and every external call returns or raises:
\* once the document is parsed, a step that can be taken is taken.
FairSpec == Spec /\ WF_vars(AfterParse)

\* parse_issues_file alone, on every document of up to MaxDocLen tokens and on
\* the catalogue documents.
InitParse == InitWith(TokenDocs \cup CatalogueDocs)

NextParse == Parse

ParseSpec == InitParse /\ [][NextParse]_vars

-----------------------------------------------------------------------------
(* What the run has done so far *)

of_op(op) == SelectSeq(events, LAMBDA e : e.op = op)

at_op(op) == {k \in 1..Len(events) : events[k].op = op}

has_event(op, out) == \E k \in at_op(op) : events[k].out = out

\* The calls that publish.
published == at_op("label_upsert") \cup at_op("issue_create")

\* The calls to the GitHub CLI.
remote == published \cup at_op("version_check") \cup at_op("auth_status")

upserted == [k \in 1..Len(of_op("label_upsert")) |-> of_op("label_upsert")[k].arg]

attempts == of_op("issue_create")

range(s) == {s[k] : k \in 1..Len(s)}

-----------------------------------------------------------------------------
(* Properties *)

\* C1: when gh --version reports the CLI unavailable or gh auth status reports
\* the caller unauthenticated, main has returned and no label was upserted and
\* no issue created, whatever the parsed records are.
C1_PreflightFailurePublishesNothing ==
  (has_event("version_check", "unavailable") \/ has_event("auth_status", "unauthenticated"))
    => (pc = "stopped" /\ published = {})

C1_Witness ==
  /\ pc = "stopped"
  /\ has_event("auth_status", "unauthenticated")
  /\ Len(issues) >= 2
  /\ label_set(issues) # {}

\* C2: every record gets exactly one issue_create attempt, the attempts are in
\* parse order, and no outcome of an attempt (ok, error, exception) keeps the
\* next record from its attempt: the run ends with one attempt per record.
C2_OneAttemptPerRecordInOrder ==
  /\ \A k \in 1..Len(attempts) : attempts[k].arg = k
  /\ Len(attempts) <= Len(issues)
  /\ pc \in {"issue_temp", "issue_call"} => Len(attempts) = i - 1
  /\ pc = "done" => Len(attempts) = Len(issues)

C2_Witness ==
  /\ pc = "done"
  /\ Len(attempts) >= 2
  /\ attempts[1].out = "raise"
  /\ attempts[2].out = "error"

\* C3: created is the number of issue_create calls that returned ok, failed the
\* number that returned an error or raised; created + failed is the number of
\* records attempted so far and, at the end, the number of records.
C3_CountsMatchOutcomes ==
  /\ created = Cardinality({k \in at_op("issue_create") : events[k].out = "ok"})
  /\ failed = Cardinality({k \in at_op("issue_create") : events[k].out \in {"error", "raise"}})
  /\ created + failed = Len(attempts)
  /\ pc = "done" => /\ created + failed = Len(issues)
                    /\ events[Len(events)] = event("summary", <<created, failed>>, "ok")

C3_Witness ==
  /\ pc = "done"
  /\ Len(issues) = 2
  /\ created = 1
  /\ failed = 1
  /\ has_event("issue_create", "raise")

\* C4: the temporary body file of a record is removed after its issue_create
\* call on every outcome: at most one exists at any time, during the call it is
\* the one of the current record, none exists when the next one is created and
\* none when the run ends.
C4_TempFileScoped ==
  /\ Cardinality(temp_files) <= 1
  /\ pc \in {"issue_call", "issue_unlink"} => temp_files = {body_file(i)}
  /\ pc = "issue_temp" => temp_files = {}
  /\ pc = "done" => temp_files = {}

C4_Witness ==
  /\ pc = "issue_temp"
  /\ i = 2
  /\ i <= Len(issues)
  /\ attempts[1].out = "raise"
  /\ temp_files = {}

\* The blocks of the document.
issue_blocks == split(content, SEP)

\* A block with a title that parse takes and with no description but with
\* acceptance criteria or files to modify.
no_description(block) ==
  /\ contains_issue_marker(block)
  /\ title_match(block).matched
  /\ strip(title_match(block).group1) # <<>>
  /\ ~desc_match(block).matched
  /\ criteria_match(block).matched \/ files_match(block).matched

\* C5: for a block with a title, no description and acceptance criteria or
\* files to modify, parse does not fail and emits the record of the block.
C5_ParseToleratesMissingDescription ==
  pc # "parse" =>
    \A b \in 1..Len(issue_blocks) :
      no_description(issue_blocks[b]) =>
        /\ events[1].out = "ok"
        /\ \E k \in 1..Len(issues) :
             /\ issues[k]["title"] = strip(title_match(issue_blocks[b]).group1)
             /\ has(issues[k], "body")

\* C6: when both preflight checks pass, the run reaches the final summary line
\* with the created and failed counts, whatever the outcomes of the
\* label_upsert and issue_create calls.
C6_PassedPreflightReachesSummary ==
  (pc = "labels") ~>
     (pc = "done" /\ events[Len(events)] = event("summary", <<created, failed>>, "ok"))

C6_Witness ==
  /\ pc = "done"
  /\ has_event("label_upsert", "raise")
  /\ has_event("label_upsert", "error")
  /\ has_event("issue_create", "raise")

\* A block with a recognizable title line: the title pattern matches and the
\* captured text is not blank.
titled(block) ==
  /\ contains_issue_marker(block)
  /\ title_match(block).matched
  /\ strip(title_match(block).group1) # <<>>

\* The titles of the titled blocks, trimmed, in block order.
RECURSIVE titles(_)
titles(blocks) ==
  IF blocks = <<>> THEN <<>>
  ELSE (IF titled(Head(blocks)) THEN <<strip(title_match(Head(blocks)).group1)>> ELSE <<>>)
         \o titles(Tail(blocks))

\* C7: parse emits one record per block with a recognizable title line and none
\* for any other block: the result is as long as the number of titled blocks,
\* in block order, each title the captured text trimmed and not empty.
C7_OneRecordPerTitledBlock ==
  pc # "parse" =>
    /\ Len(issues) = Len(titles(issue_blocks))
    /\ \A k \in 1..Len(issues) :
         /\ issues[k]["title"] = titles(issue_blocks)[k]
         /\ issues[k]["title"] # <<>>

\* all_labels has been computed.
labels_known == pc \in {"create_labels", "issue_temp", "issue_call", "issue_unlink", "done"}

\* C8: get_all_labels returns the labels of all records, each once, in
\* ascending order of their characters, and create_labels calls label_upsert
\* once for each of them, in that order.
C8_LabelsSortedUniqueUpsertedOnce ==
  labels_known =>
    /\ \A k \in 1..Len(issues) :
         has(issues[k], "labels") => range(issues[k]["labels"]) \subseteq range(all_labels)
    /\ \A x \in range(all_labels) :
         \E k \in 1..Len(issues) : has(issues[k], "labels") /\ x \in range(issues[k]["labels"])
    /\ \A p, q \in 1..Len(all_labels) : p < q => str_less(all_labels[p], all_labels[q])
    /\ upserted = SubSeq(all_labels, 1, Len(upserted))
    /\ pc = "create_labels" => Len(upserted) = label_idx - 1
    /\ pc # "create_labels" => upserted = all_labels

C8_Witness ==
  /\ pc = "done"
  /\ Len(issues) >= 2
  /\ \E k \in 1..Len(issues) : ~has(issues[k], "labels")
  /\ \E k \in 1..Len(issues) :
       /\ has(issues[k], "labels")
       /\ Len(issues[k]["labels"]) = 2
       /\ str_less(issues[k]["labels"][2], issues[k]["labels"][1])
  /\ Len(upserted) >= 2

\* The body the sections of a block make: the description, then the
\* acceptance criteria under their heading, then the files under theirs, a
\* blank line before each section that follows other content.
section(before, heading, text) ==
  (IF before = <<>> THEN <<>> ELSE before \o <<NL, NL>>) \o <<heading, NL>> \o text

assembled(block) ==
  LET d == IF desc_match(block).matched THEN strip(desc_match(block).group1) ELSE <<>>
      a == IF criteria_match(block).matched
           THEN section(d, HA, strip(criteria_match(block).group1)) ELSE d
  IN  IF files_match(block).matched
      THEN section(a, HF, strip(files_match(block).group1)) ELSE a

\* The titled blocks, in block order.
titled_blocks == SelectSeq(issue_blocks, titled)

\* C9: the body of a record is the description, the acceptance criteria and the
\* files to modify of its block in that order, one blank line before each new
\* section; an absent section adds nothing and leaves the order of the others.
C9_BodyAssembledInOrder ==
  pc # "parse" =>
    /\ Len(issues) = Len(titled_blocks)
    /\ \A k \in 1..Len(issues) : body_of(issues[k]) = assembled(titled_blocks[k])

\* C10: issues.json is written after parsing and before any call to the CLI,
\* so it is there when a preflight check fails; both preflight checks pass
\* before any label_upsert; every label_upsert comes before the first
\* issue_create; a label_upsert that fails or raises stops neither the other
\* label_upsert calls nor the issues.
C10_RunOrder ==
  /\ events # <<>> => events[1].op = "parse"
  /\ \A k \in remote : \E j \in at_op("snapshot") : j < k
  /\ remote # {} => snapshot.exists
  /\ \A k \in at_op("label_upsert") :
       \E v \in at_op("version_check"), a \in at_op("auth_status") :
         /\ v < a /\ a < k
         /\ events[v].out = "ok"
         /\ events[a].out = "authenticated"
  /\ \A k \in at_op("issue_create") : \A j \in at_op("label_upsert") : j < k
  /\ at_op("issue_create") # {} => upserted = all_labels
  /\ \A k \in at_op("label_upsert") :
       (events[k].out # "ok" /\ events[k].arg # all_labels[Len(all_labels)])
         => (pc = "create_labels" \/ events[k + 1].op = "label_upsert")
  /\ pc = "done" => Len(upserted) = Len(all_labels) /\ Len(attempts) = Len(issues)

C10_Witness ==
  /\ pc = "done"
  /\ Len(upserted) >= 2
  /\ of_op("label_upsert")[1].out = "raise"
  /\ of_op("label_upsert")[2].out = "error"
  /\ Len(attempts) >= 1

====
